---- MODULE Spec2Model ----
(***************************************************************************)
(* Speaks-for credential tools (tlmat-unican/speaks-for).                  *)
(*                                                                         *)
(* The model covers the credential builder (speaks-for) and the three      *)
(* generations of the verifier (validate-speaks-for): the Promise          *)
(* coroutine, the nested-callback one with tail binding, and the older     *)
(* nested-callback one that stops after the head binding.                  *)
(*                                                                         *)
(* Cryptography is symbolic: a digest is a term over the canonical form    *)
(* it was computed from, a signature value is a term over the signing key  *)
(* and the SignedInfo it covers; there are no collisions and no            *)
(* forgeries.  Text that the programs read back (dates, command-line       *)
(* values, keyids) is modelled with the conversions the code applies.      *)
(***************************************************************************)
EXTENDS Integers, Sequences, FiniteSets, TLC

(***************************************************************************)
(* Program constant and model bounds                                       *)
(***************************************************************************)
singleDayMillis == 86400000

\* number of distinct RSA key pairs
NKeys == 2
\* -d ranges over -1..MaxDays
MaxDays == 1
\* longest certificate chain of a signer bundle
MaxChain == 2
\* the clock reading (ms since the epoch) when the builder runs
IssueTime == 5

Keys == 1..NKeys

(***************************************************************************)
(* Text: a keyid or a command-line word is a sequence of hexadecimal       *)
(* digits 0..15.  The digit 14 ('e') is not used, so that a word is        *)
(* numeric for yargs exactly when all its digits are decimal.              *)
(***************************************************************************)
RECURSIVE DecimalValue(_)
DecimalValue(t) ==
    IF t = <<>> THEN 0 ELSE 10 * DecimalValue(SubSeq(t, 1, Len(t) - 1)) + t[Len(t)]

IsDecimal(t) == Len(t) > 0 /\ \A i \in 1..Len(t) : t[i] <= 9

\* yargs: an option declared without a string type gets a numeric-looking
\* word as a Number, any other word as a String.
YargsValue(t) ==
    IF IsDecimal(t) THEN [isNum |-> TRUE, num |-> DecimalValue(t), str |-> <<>>]
                    ELSE [isNum |-> FALSE, num |-> 0, str |-> t]

\* JavaScript truthiness of an option: undefined (<<>>), the number 0 and
\* the empty string are falsy.
Truthy(opt) ==
    /\ opt # <<>>
    /\ IF opt[1].isNum THEN opt[1].num # 0 ELSE opt[1].str # <<>>

\* v !== text, v an option value, text a String read from the document
StrictNotEqual(v, text) == v.isNum \/ v.str # text

\* v != text: a Number is compared with ToNumber(text); the empty text
\* converts to 0 and a non-numeric text to NaN, which equals nothing.
LooseNotEqual(v, text) ==
    IF v.isNum
    THEN ~ (/\ \A i \in 1..Len(text) : text[i] <= 9
            /\ DecimalValue(text) = v.num)
    ELSE v.str # text

(***************************************************************************)
(* Dates.  Date.prototype.toISOString writes an instant as calendar day    *)
(* and time of day; new Date(text) reads it back, and gives an invalid     *)
(* Date (NaN) for text that is no date.                                    *)
(***************************************************************************)
toISOString(t) ==
    [valid |-> TRUE, day |-> t \div singleDayMillis, ms |-> t % singleDayMillis]

InvalidDateText == [valid |-> FALSE, day |-> 0, ms |-> 0]

\* new Date(text): <<instant>>, or <<>> for NaN
NewDate(text) ==
    IF text.valid THEN << text.day * singleDayMillis + text.ms >> ELSE <<>>

\* new Date(text) < new Date(): every comparison with NaN is false
DateBefore(text, now) ==
    /\ NewDate(text) # <<>>
    /\ NewDate(text)[1] < now

(***************************************************************************)
(* Certificates and key fingerprints                                       *)
(***************************************************************************)
SanKinds == {"none", "other", "publicid"}

\* a parsed X.509 certificate: its RSA public key and what its
\* subjectAltName extension holds ("none": no such extension)
Cert(k, san) == [publicKey |-> k, san |-> san]

Certs == {Cert(k, s) : k \in Keys, s \in SanKinds}

\* stand-in for SHA-1 in hex: injective on the DER encodings of the keys
Sha1Hex(der) ==
    IF der.type = "RSAPublicKey"
    THEN IF der.key % 2 = 1 THEN <<der.key, 2>> ELSE <<10, der.key>>
    ELSE <<11, der.key>>

\* mutant of getPublicKeyFingerprint: the fingerprint is asked for with
\* type 'SubjectPublicKeyInfo'
getPublicKeyFingerprintOfSpki(k) == Sha1Hex([type |-> "SubjectPublicKeyInfo", key |-> k])

\* forge.pki.getPublicKeyFingerprint(key, {encoding: 'hex'}): md defaults to
\* SHA-1 and type defaults to 'RSAPublicKey'
getPublicKeyFingerprint(k) == Sha1Hex([type |-> "RSAPublicKey", key |-> k])

(***************************************************************************)
(* PEM armor around a certificate                                          *)
(***************************************************************************)
\* A PEM text is its base64 body, whether the BEGIN and END lines are
\* around it, and its line ends.
\* forge.pki.certificateToPem: armor lines, lines ended with CR LF
certificateToPem(c) == [armor |-> TRUE, eol |-> "CRLF", b64 |-> c]

\* SpeaksForKeyInfo.filterPemCertificate (builder): the text is split at
\* LF, the empty lines and the lines that start with ----- are dropped
filterPemCertificate(pem) == [armor |-> FALSE, eol |-> pem.eol, b64 |-> pem.b64]

\* SpeaksForKeyInfo.wrapCertificate (verifier): CR LF becomes LF, the text
\* is trimmed and put between the armor lines
wrapCertificate(text) == [armor |-> TRUE, eol |-> "LF", b64 |-> text.b64]

\* mutant of getKey: only certificates[0] is wrapped
getKeyFirstOnly(x509Data) == << wrapCertificate(x509Data[1]) >>

\* SpeaksForKeyInfo.getKey (verifier): the PEM chain of the
\* X509Certificate elements found under keyInfo[0], in document order
getKey(x509Data) == [i \in 1..Len(x509Data) |-> wrapCertificate(x509Data[i])]

\* forge.pki.certificateFromPem on a PEM chain: the first PEM message
certificateFromPem(pemChain) == pemChain[1].b64

(***************************************************************************)
(* The canonicalizer.  A canonical string is a sequence of pieces: "<" is  *)
(* the start of a tag up to its attributes, the other pieces are the       *)
(* three parts of the sequence the fixup looks for, and other text.  A     *)
(* subtree is the sequence of what it holds: elements with an xml:id       *)
(* attribute, and pieces of character data.                                *)
(***************************************************************************)
\* most items of a subtree
MaxCanon == 5

\* the sequence the fixup looks for: xmlns:xml="" xml:id
XmlnsXmlId == <<"xmlns:xml=\"\"", " ", "xml:id">>

NodeItems == {"idAttr", "xmlns:xml=\"\"", " ", "xml:id", "text"}

Nodes == UNION {[1..n -> NodeItems] : n \in 0..MaxCanon}

\* origExclusiveCanonicalization.prototype.process: the library writes the
\* namespace in front of every xml:id attribute; character data is written
\* as it is (quotes are not escaped in text)
RECURSIVE origProcess(_)
origProcess(n) ==
    IF n = <<>> THEN <<>>
    ELSE (IF Head(n) = "idAttr" THEN <<"<">> \o XmlnsXmlId ELSE <<Head(n)>>)
         \o origProcess(Tail(n))

MatchAt(s, i) ==
    /\ i + Len(XmlnsXmlId) - 1 <= Len(s)
    /\ SubSeq(s, i, i + Len(XmlnsXmlId) - 1) = XmlnsXmlId

\* where the sequence occurs in a string
Matches(s) == {i \in 1..Len(s) : MatchAt(s, i)}

\* canon.replace(/xmlns:xml="" xml:id/, "xml:id"): the regular expression
\* has no g flag, the first match is replaced
Replace(s) ==
    IF Matches(s) = {} THEN s
    ELSE LET i == CHOOSE m \in Matches(s) : \A o \in Matches(s) : m <= o
         IN SubSeq(s, 1, i - 1) \o <<"xml:id">>
            \o SubSeq(s, i + Len(XmlnsXmlId), Len(s))

\* monkeyPatchedExclusiveCanonicalization.process
process(n) == Replace(origProcess(n))

\* a canonical string read back as a subtree: a tag with an xml:id
\* attribute, with or without the namespace in front of it, is an element
\* with an xml:id attribute
RECURSIVE ParseCanon(_)
ParseCanon(s) ==
    IF s = <<>> THEN <<>>
    ELSE IF Head(s) # "<" THEN <<Head(s)>> \o ParseCanon(Tail(s))
    ELSE IF MatchAt(s, 2)
         THEN <<"idAttr">> \o ParseCanon(SubSeq(s, 2 + Len(XmlnsXmlId), Len(s)))
         ELSE <<"idAttr">> \o ParseCanon(SubSeq(s, 3, Len(s)))

\* SignedXml.CanonicalizationAlgorithms[exc-c14n] when xml-crypto is
\* loaded, and after monkeyPatchSignedXmlExclusiveCanonicalization
LibraryAlgorithm == "orig"

monkeyPatchSignedXmlExclusiveCanonicalization(algorithm) == "monkeyPatched"

\* process of the algorithm found in the table
ProcessWith(algorithm, n) ==
    IF algorithm = "monkeyPatched" THEN process(n) ELSE origProcess(n)

\* the builder installs the fixup, then computes the signature
SignerAlgorithm == monkeyPatchSignedXmlExclusiveCanonicalization(LibraryAlgorithm)

\* mutant of VerifierAlgorithm: the oldest verifier does not install the
\* fixup
VerifierAlgorithmV1Unpatched(v) ==
    IF v = "callbackV1" THEN LibraryAlgorithm
    ELSE monkeyPatchSignedXmlExclusiveCanonicalization(LibraryAlgorithm)

\* every verifier installs the fixup, then checks the signature
VerifierAlgorithm(v) == monkeyPatchSignedXmlExclusiveCanonicalization(LibraryAlgorithm)

(***************************************************************************)
(* The credential document                                                 *)
(***************************************************************************)
\* credential-template.txt rendered with expires, userKeyhash, toolKeyhash;
\* fmt stands for the lexical form of the tags, which canonicalization
\* normalizes
RenderTemplate(expires, userKeyhash, toolKeyhash) ==
    [expires |-> expires, head |-> userKeyhash, tail |-> toolKeyhash, fmt |-> 0]

\* the credential element of the template: <credential xml:id="ref0" ...>
CredentialNode == <<"idAttr">>

\* exclusive canonicalization of the credential element with the algorithm
\* found in the table: its start tag, and the content without the lexical
\* form of the tags
CanonWith(algorithm, credential) ==
    [startTag |-> ProcessWith(algorithm, CredentialNode),
     expires |-> credential.expires, head |-> credential.head,
     tail |-> credential.tail]

\* the canonical form the builder digests
Canon(credential) == CanonWith(SignerAlgorithm, credential)

\* SHA-1 DigestValue of a canonical form; flip marks a digest value that is
\* the digest of nothing known
Sha1Digest(canon) == [of |-> canon, flip |-> 0]

\* SignedInfo with its single Reference to the credential element
SignedInfo(credential) == [digest |-> Sha1Digest(Canon(credential)), other |-> 0]

\* RSA-SHA1 SignatureValue over the canonical SignedInfo
RsaSign(privateKey, signedInfo) ==
    [signer |-> privateKey, over |-> signedInfo, flip |-> 0]

\* crypto verify of a SignatureValue with a public key
RsaVerify(publicKey, signedInfo, value) ==
    /\ value.signer = publicKey
    /\ value.over = signedInfo
    /\ value.flip = 0

\* SpeaksForKeyInfo.getKeyInfo (builder): KeyValue of the first certificate
\* of the chain, then every certificate of the chain as X509Certificate,
\* its PEM text with LF for CR LF and filtered
getKeyInfo(chain) ==
    [keyValue |-> chain[1].publicKey,
     x509 |-> [i \in 1..Len(chain) |->
                  filterPemCertificate([certificateToPem(chain[i])
                                           EXCEPT !.eol = "LF"])]]

\* A document is the credential element at /*/credential, the Signature
\* under signatures and two things only a document written by hand has:
\* wrapped, an element somewhere else that carries the id the Reference
\* names and comes first in document order (<<>> when the element with
\* that id is /*/credential itself), and ahead, X509Certificate elements
\* of KeyInfo in front of the X509Data element that the path
\* *[name()='KeyInfo']/*[name()='X509Data'] selects.
\* signedXml.computeSignature + getSignedXml: the credential with the
\* enveloped Signature inserted under signatures
SignedDocument(credential, privateKey, chain) ==
    [wellFormed |-> TRUE, schemaOk |-> TRUE, outside |-> 0,
     credential |-> credential,
     wrapped |-> <<>>,
     signature |-> << [signedInfo |-> SignedInfo(credential),
                       value |-> RsaSign(privateKey, SignedInfo(credential)),
                       keyValue |-> getKeyInfo(chain).keyValue,
                       ahead |-> <<>>,
                       x509 |-> getKeyInfo(chain).x509] >>]

\* extractFed4FIREPublicId: reads subjectAltName.altNames; getExtension
\* gives null for a certificate without the extension, and the read throws
extractFed4FIREPublicIdThrows(cert) == cert.san = "none"

(***************************************************************************)
(* State                                                                   *)
(***************************************************************************)
VARIABLES
    bargv,      \* builder: the loaded user credential, tool certificate, -d
    bpc,        \* builder: "off", "ready", "done" or "error"
    emitted,    \* builder: the base64 credential printed, <<>> if none
    s4file,     \* the file handed to the verifier with -s, <<>> if none yet
    origin,     \* where s4file comes from: builder, a tampering, or forged
    variant,    \* which verifier runs
    argv,       \* verifier: -f, -k and -t as yargs delivers them
    vpc,        \* verifier: position in the pipeline
    s4cred,     \* verifier: the loaded credential text, <<>> before loading
    signingCertificatePem, \* verifier: PEM chain taken from X509Data
    ossl,       \* verifier: what openssl-verify answered, <<>> before
    clock,      \* verifier: new Date() read by the expiration check
    trace,      \* verifier: stages entered and console lines, in order
    retval,     \* coroutine verifier: value the promise settles with
    exitCode,   \* verifier: process exit status, -1 while running
    lpc,        \* loader: "off", "ready", "loaded" or "failed"
    cfile,      \* loader: the -c file, its -f format and the -p password
    userCredential, \* loader: the bundle returned, <<>> if none
    lerror,     \* loader: the message thrown, "" if none
    node,       \* canonicalizer: the subtree handed to process
    canon,      \* canonicalizer: the strings process returned, in order
    bn,         \* bnToBytes: the big integer
    bnBytes     \* bnToBytes: the bytes returned, <<>> before the call

lvars == <<lpc, cfile, userCredential, lerror>>
cvars == <<node, canon>>
kvars == <<bn, bnBytes>>
libvars == <<lvars, cvars, kvars>>

vars == <<bargv, bpc, emitted, s4file, origin, variant, argv, vpc, s4cred,
          signingCertificatePem, ossl, clock, trace, retval, exitCode, libvars>>

bvars == <<bargv, bpc, emitted>>
vvars == <<variant, argv, vpc, s4cred, signingCertificatePem, ossl, clock,
           trace, retval, exitCode>>

(***************************************************************************)
(* Inputs                                                                  *)
(***************************************************************************)
\* a certificate chain of the signer: first certificate with key k, then
\* issuer certificates
ChainOf(k, n) == [i \in 1..n |-> IF i = 1 THEN Cert(k, "none") ELSE Cert(NKeys, "other")]

\* what loadPemCredential / loadPkcs12Credential return
Bundles ==
    {[privateKey |-> k, certChain |-> ChainOf(c, n)] :
        k \in Keys, c \in Keys, n \in 0..MaxChain}

BuilderArgs ==
    [credential : Bundles, toolcertificate : Certs, days : (-1)..MaxDays]

\* privateKey: null
NoKey == 0

ValidBundle(b) ==
    /\ b.certChain # <<>>
    /\ b.certChain[1].publicKey = b.privateKey

(***************************************************************************)
(* The builder: speaks-for                                                 *)
(***************************************************************************)
\* the try block throws: certChain[0] of an empty chain, privateKeyToPem
\* of a null key when the bundle is printed, or the publicId extraction on
\* a tool certificate without subjectAltName
BuildThrows(a) ==
    \/ a.credential.certChain = <<>>
    \/ a.credential.privateKey = NoKey
    \/ extractFed4FIREPublicIdThrows(a.toolcertificate)

\* mutant of ExpireDate: a negative -d counts as 0
ExpireDateClamped(now, days) ==
    now + (IF days < 0 THEN 0 ELSE days) * singleDayMillis

\* expireDate.setTime(expireDate.getTime() + argv.days * singleDayMillis)
ExpireDate(now, days) == now + days * singleDayMillis

\* the XML rendered from the template
BuildXml(a, now) ==
    RenderTemplate(toISOString(ExpireDate(now, a.days)),
                   getPublicKeyFingerprint(a.credential.certChain[1].publicKey),
                   getPublicKeyFingerprint(a.toolcertificate.publicKey))

\* new Buffer(speaksForCredential).toString('base64')
Base64File(doc) == [enc |-> "base64", doc |-> doc]

\* what the run has printed (and written with -o) when it ends
BuildCredential(a) ==
    Base64File(SignedDocument(BuildXml(a, IssueTime), a.credential.privateKey,
                              a.credential.certChain))

\* mutant of BuildOutput: the publicId of the tool is extracted for the
\* closing line, after the credential is printed
BuildOutputThenPublicId(a) ==
    IF a.credential.certChain = <<>> \/ a.credential.privateKey = NoKey
    THEN [pc |-> "error", emitted |-> <<>>]
    ELSE [pc |-> IF extractFed4FIREPublicIdThrows(a.toolcertificate)
                 THEN "error" ELSE "done",
          emitted |-> << BuildCredential(a) >>]

\* the try block: whatever throws lands in the catch, which prints the
\* error and returns; the credential is printed and written as the last
\* statements of the block
BuildOutput(a) ==
    IF BuildThrows(a)
    THEN [pc |-> "error", emitted |-> <<>>]
    ELSE [pc |-> "done", emitted |-> << BuildCredential(a) >>]

Build ==
    /\ bpc = "ready"
    /\ bpc' = BuildOutput(bargv).pc
    /\ emitted' = BuildOutput(bargv).emitted
    /\ UNCHANGED <<bargv, s4file, origin>>
    /\ UNCHANGED vvars
    /\ UNCHANGED libvars

(***************************************************************************)
(* Between the tools: the printed credential is saved and handed to the    *)
(* verifier, as it is or after somebody changed a part of it               *)
(***************************************************************************)
Deliver ==
    /\ bpc = "done"
    /\ s4file = <<>>
    /\ s4file' = emitted
    /\ origin' = "builder"
    /\ UNCHANGED bvars
    /\ UNCHANGED libvars
    /\ UNCHANGED vvars

OtherKey(k) == (k % NKeys) + 1

TamperKinds ==
    {"credential", "fmt", "digest", "signedInfo", "signatureValue", "keyValue",
     "x509key", "x509other", "x509rest", "outside"}

\* the document with one part changed
TamperDoc(doc, kind) ==
    LET sig == doc.signature[1]
        first == sig.x509[1]
        WithSig(s) == [doc EXCEPT !.signature = <<s>>]
    IN CASE kind = "credential" ->
              [doc EXCEPT !.credential.tail = <<0>> \o @]
         [] kind = "fmt" ->
              [doc EXCEPT !.credential.fmt = 1]
         [] kind = "digest" ->
              WithSig([sig EXCEPT !.signedInfo.digest.flip = 1])
         [] kind = "signedInfo" ->
              WithSig([sig EXCEPT !.signedInfo.other = 1])
         [] kind = "signatureValue" ->
              WithSig([sig EXCEPT !.value.flip = 1])
         [] kind = "keyValue" ->
              WithSig([sig EXCEPT !.keyValue = OtherKey(@)])
         [] kind = "x509key" ->
              WithSig([sig EXCEPT !.x509[1].b64.publicKey = OtherKey(@)])
         [] kind = "x509other" ->
              WithSig([sig EXCEPT !.x509[1].b64.san = "publicid"])
         [] kind = "x509rest" ->
              WithSig([sig EXCEPT !.x509[2].b64.san = "publicid"])
         [] OTHER ->
              [doc EXCEPT !.outside = 1]

Tamper ==
    /\ bpc = "done"
    /\ s4file = <<>>
    /\ \E kind \in TamperKinds :
          /\ kind = "x509rest" => Len(emitted[1].doc.signature[1].x509) >= 2
          /\ s4file' = << [emitted[1] EXCEPT !.doc = TamperDoc(@, kind)] >>
          /\ origin' = kind
    /\ UNCHANGED bvars
    /\ UNCHANGED libvars
    /\ UNCHANGED vvars

(***************************************************************************)
(* Files handed to the verifier that no builder run produced               *)
(***************************************************************************)
KeyidTexts == {getPublicKeyFingerprint(k) : k \in Keys} \cup {<<0, 1, 2>>}

ExpiresTexts == {toISOString(IssueTime + singleDayMillis), InvalidDateText}

ForgedCredentials ==
    [expires : ExpiresTexts, head : KeyidTexts, tail : KeyidTexts, fmt : {0}]

SignedForgeries ==
    {SignedDocument(c, k, ChainOf(p, 1)) :
        c \in ForgedCredentials, k \in Keys, p \in Keys}

BrokenDocs ==
    LET d == SignedDocument(RenderTemplate(toISOString(IssueTime + singleDayMillis),
                                           getPublicKeyFingerprint(1),
                                           getPublicKeyFingerprint(1)),
                            1, ChainOf(1, 1))
    IN {[d EXCEPT !.wellFormed = FALSE],
        [d EXCEPT !.schemaOk = FALSE],
        [d EXCEPT !.signature = <<>>],
        [d EXCEPT !.signature[1].x509 = <<>>]}

\* a credential a user signed some time ago, expired by now, put where the
\* Reference still finds it by its id, and another credential element
\* written at /*/credential
WrappedForgeries ==
    LET signed(k) ==
            SignedDocument(RenderTemplate(toISOString(IssueTime - singleDayMillis),
                                          getPublicKeyFingerprint(k),
                                          getPublicKeyFingerprint(k)),
                           k, ChainOf(k, 1))
    IN {[signed(k) EXCEPT !.wrapped = << signed(k).credential >>,
                          !.credential = c] :
           c \in ForgedCredentials, k \in Keys}

\* a credential signed with one key, whose KeyInfo holds the certificate of
\* that key in front of an X509Data with the certificate of another user
AheadForgeries ==
    {[SignedDocument(c, k, ChainOf(OtherKey(k), 1))
        EXCEPT !.signature[1].ahead = getKeyInfo(ChainOf(k, 1)).x509] :
        c \in ForgedCredentials, k \in Keys}

ForgedFiles ==
    {[enc |-> e, doc |-> d] : e \in {"base64", "xml"}, d \in BrokenDocs}
    \cup {[enc |-> "xml", doc |-> d] :
             d \in SignedForgeries \cup WrappedForgeries \cup AheadForgeries}

(***************************************************************************)
(* The verifier: validate-speaks-for                                       *)
(***************************************************************************)
Variants == {"coroutine", "callback", "callbackV1"}

\* words given on the command line after -k
KeyidWords == {getPublicKeyFingerprint(k) : k \in Keys} \cup {<<0>>}

\* argv of one run: -f, and for the verifiers that know them -k (keyid,
\* keyhash) and -t (toolcertificate, here the certificate in the named file)
VerifierArgs(v) ==
    IF v = "callbackV1"
    THEN [format : {"base64", "xml"}, keyid : {<<>>}, toolcertificate : {<<>>}]
    ELSE [format : {"base64", "xml"},
          keyid : {<<>>} \cup {<<YargsValue(w)>> : w \in KeyidWords},
          toolcertificate : {<<>>} \cup {<<Cert(k, "publicid")>> : k \in Keys}]

\* what new Date() can read in the expiration check
Nows ==
    {IssueTime + singleDayMillis + delta : delta \in {-1, 0, 1}} \cup {IssueTime}

\* what openssl.verifyCertificate can hand to its callback
OpensslResults ==
    [err : {FALSE}, validCert : BOOLEAN, verifiedCA : BOOLEAN, expired : BOOLEAN]
    \cup {[err |-> TRUE, validCert |-> FALSE, verifiedCA |-> FALSE, expired |-> FALSE]}

OpensslOk(r) == ~r.err /\ r.validCert /\ r.verifiedCA /\ ~r.expired

\* loadSpeaksForCredential: the file decoded as base64 or taken as it is;
\* text decoded the wrong way is no XML
loadSpeaksForCredential(file, isBase64) ==
    IF isBase64 = (file.enc = "base64")
    THEN file.doc
    ELSE [file.doc EXCEPT !.wellFormed = FALSE]

Event(ev, stage, reason) == [ev |-> ev, stage |-> stage, reason |-> reason]

\* a stage is entered
Started(stage) == Append(trace, Event("start", stage, ""))

\* mutant of Fail: the return after the report of the expiration check
\* is missing
FailGoesOn(t, stage, reason) ==
    /\ trace' = Append(t, Event("fail", stage, reason))
    /\ retval' = IF variant = "coroutine" THEN 1 ELSE retval
    /\ vpc' = IF stage = 4 THEN "stage5" ELSE "done"
    /\ exitCode' = IF stage = 4 THEN exitCode ELSE 0

\* a stage throws or reports its error, t being the trace so far: the
\* coroutine's catch returns 1, a callback returns; the process then ends
\* normally
Fail(t, stage, reason) ==
    /\ trace' = Append(t, Event("fail", stage, reason))
    /\ retval' = IF variant = "coroutine" THEN 1 ELSE retval
    /\ vpc' = "done"
    /\ exitCode' = 0

\* a TypeError: the coroutine's catch turns it into a reported failure; in
\* a callback nothing catches it and node dies with status 1
Throw(t, stage) ==
    IF variant = "coroutine"
    THEN Fail(t, stage, "TypeError")
    ELSE /\ trace' = Append(t, Event("crash", stage, "TypeError"))
         /\ vpc' = "done"
         /\ exitCode' = 1
         /\ UNCHANGED retval

\* a stage is done and its INFO line printed
Pass(t, stage, next) ==
    /\ trace' = Append(t, Event("pass", stage, ""))
    /\ vpc' = next
    /\ UNCHANGED <<retval, exitCode>>

\* argv.keyhash && argv.toolcertificate
UsageConflict(v, a) ==
    /\ v # "callbackV1"
    /\ Truthy(a.keyid)
    /\ a.toolcertificate # <<>>

VStart ==
    /\ vpc = "idle"
    /\ s4file # <<>>
    /\ \E v \in Variants : \E a \in VerifierArgs(v) :
          /\ variant' = v
          /\ argv' = a
          /\ IF UsageConflict(v, a)
             THEN /\ trace' = << Event("usage", 0, "-k and -t") >>
                  /\ vpc' = "done"
                  /\ exitCode' = 0
                  /\ s4cred' = <<>>
             ELSE /\ trace' = <<>>
                  /\ vpc' = "parse"
                  /\ exitCode' = exitCode
                  /\ s4cred' = << loadSpeaksForCredential(s4file[1], a.format = "base64") >>
    /\ UNCHANGED <<signingCertificatePem, ossl, clock, retval, s4file, origin>>
    /\ UNCHANGED bvars
    /\ UNCHANGED libvars

\* libxml.Document.fromXmlAsync, the first half of stage 1
VParse ==
    /\ vpc = "parse"
    /\ IF s4cred[1].wellFormed
       THEN /\ trace' = Started(1)
            /\ vpc' = "schema"
            /\ UNCHANGED <<retval, exitCode>>
       ELSE Fail(Started(1), 1, "parse")
    /\ UNCHANGED <<variant, argv, s4cred, signingCertificatePem, ossl, clock, s4file, origin>>
    /\ UNCHANGED bvars
    /\ UNCHANGED libvars

\* Stage 1: validateSpeaksForSchema / schema.validate
VSchema ==
    /\ vpc = "schema"
    /\ IF s4cred[1].schemaOk
       THEN Pass(trace, 1, "stage2")
       ELSE Fail(trace, 1, "schema")
    /\ UNCHANGED <<variant, argv, s4cred, signingCertificatePem, ossl, clock, s4file, origin>>
    /\ UNCHANGED bvars
    /\ UNCHANGED libvars

\* what sig.checkSignature hands to keyInfoProvider.getKey: the KeyInfo
\* element of the loaded Signature, with every X509Certificate under it
KeyInfoOf(sig) == sig.ahead \o sig.x509

\* the element the Reference is resolved to with idAttribute "id": the
\* first element of the document that carries the id
Referenced(doc) == IF doc.wrapped = <<>> THEN doc.credential ELSE doc.wrapped[1]

\* mutant of checkSignature: the References are not validated
checkSignatureValueOnly(doc) ==
    LET sig == doc.signature[1]
        signingKey == certificateFromPem(getKey(KeyInfoOf(sig))).publicKey
    IN RsaVerify(signingKey, sig.signedInfo, sig.value)

\* sig.checkSignature: the Reference digest of the referenced element and
\* the SignatureValue, under the key of the first X509Certificate that
\* getKey finds
checkSignature(doc) ==
    LET sig == doc.signature[1]
        signingKey == certificateFromPem(getKey(KeyInfoOf(sig))).publicKey
    IN /\ sig.signedInfo.digest =
             Sha1Digest(CanonWith(VerifierAlgorithm(variant), Referenced(doc)))
       /\ RsaVerify(signingKey, sig.signedInfo, sig.value)

\* doc.get(".../Signature") found nothing, or getKey finds no certificate
SignatureThrows(doc) ==
    \/ doc.signature = <<>>
    \/ doc.signature[1].x509 = <<>>

\* Stage 2: validateSpeaksForXmlSignature, then the PEM chain for stage 3
\* from the X509Data element of KeyInfo
VStage2 ==
    /\ vpc = "stage2"
    /\ LET doc == s4cred[1]
       IN IF SignatureThrows(doc)
          THEN /\ Throw(Started(2), 2)
               /\ UNCHANGED signingCertificatePem
          ELSE IF checkSignature(doc)
               THEN /\ Pass(Started(2), 2, "stage3")
                    /\ signingCertificatePem' = getKey(doc.signature[1].x509)
               ELSE /\ Fail(Started(2), 2, "signature")
                    /\ UNCHANGED signingCertificatePem
    /\ UNCHANGED <<variant, argv, s4cred, ossl, clock, s4file, origin>>
    /\ UNCHANGED bvars
    /\ UNCHANGED libvars

\* mutant of ChainReason: result.expired is not looked at
ChainReasonNoExpiry(r) ==
    IF ~r.validCert THEN "output[0]"
    ELSE IF ~r.verifiedCA THEN "not trusted"
    ELSE ""

\* mutant of ChainReason: expired is tested before verifiedCA
ChainReasonExpiryFirst(r) ==
    IF ~r.validCert THEN "output[0]"
    ELSE IF r.expired THEN "not acceptable"
    ELSE IF ~r.verifiedCA THEN "not trusted"
    ELSE ""

\* Stage 3: validateSpeaksForSigningCertificate / the openssl callback.
\* The reason of a malformed certificate is the first line of the output.
ChainReason(r) ==
    IF ~r.validCert THEN "output[0]"
    ELSE IF ~r.verifiedCA THEN "not trusted"
    ELSE IF r.expired THEN "not acceptable"
    ELSE ""

VStage3 ==
    /\ vpc = "stage3"
    /\ \E r \in OpensslResults :
          /\ ossl' = <<r>>
          /\ IF r.err
             THEN IF variant = "coroutine"
                  THEN Fail(Started(3), 3, "err")
                  ELSE Throw(Started(3), 3)
             ELSE IF ChainReason(r) # ""
                  THEN Fail(Started(3), 3, ChainReason(r))
                  ELSE Pass(Started(3), 3, "stage4")
    /\ UNCHANGED <<variant, argv, s4cred, signingCertificatePem, clock, s4file, origin>>
    /\ UNCHANGED bvars
    /\ UNCHANGED libvars

\* mutant of Expired: <= in place of <
ExpiredInclusive(expirationDateStr, now) ==
    /\ NewDate(expirationDateStr) # <<>>
    /\ NewDate(expirationDateStr)[1] <= now

\* new Date(expirationDateStr) < new Date()
Expired(expirationDateStr, now) == DateBefore(expirationDateStr, now)

\* Stage 4: verifySpeaksForExpirationDate
VStage4 ==
    /\ vpc = "stage4"
    /\ \E now \in Nows :
          /\ clock' = now
          /\ IF Expired(s4cred[1].credential.expires, now)
             THEN Fail(Started(4), 4, "expired")
             ELSE Pass(Started(4), 4, "stage5")
    /\ UNCHANGED <<variant, argv, s4cred, signingCertificatePem, ossl, s4file, origin>>
    /\ UNCHANGED bvars
    /\ UNCHANGED libvars

\* the keyhash of the signing certificate: the first of the PEM chain
signingKeyhash(pemChain) ==
    getPublicKeyFingerprint(certificateFromPem(pemChain).publicKey)

\* mutant of HeadMismatch: the keyid is read from the tail
HeadMismatchTail(pemChain, credential) == signingKeyhash(pemChain) # credential.tail

\* signingKeyhash != credentialKeyhash, both Strings
HeadMismatch(pemChain, credential) == signingKeyhash(pemChain) # credential.head

\* Stage 5: verifySpeaksForHeadSection
VStage5 ==
    /\ vpc = "stage5"
    /\ IF HeadMismatch(signingCertificatePem, s4cred[1].credential)
       THEN Fail(Started(5), 5, "head")
       ELSE Pass(Started(5), 5, "stage6")
    /\ UNCHANGED <<variant, argv, s4cred, signingCertificatePem, ossl, clock, s4file, origin>>
    /\ UNCHANGED bvars
    /\ UNCHANGED libvars

\* which tail check the run makes: "k", "t" or "none".  The coroutine
\* tests argv.keyid first, the callback argv.toolcertificate; the oldest
\* verifier has no tail check.
TailCheck(v, a) ==
    IF v = "callbackV1" THEN "none"
    ELSE IF v = "coroutine"
         THEN IF Truthy(a.keyid) THEN "k"
              ELSE IF a.toolcertificate # <<>> THEN "t" ELSE "none"
         ELSE IF a.toolcertificate # <<>> THEN "t"
              ELSE IF Truthy(a.keyid) THEN "k" ELSE "none"

\* verifySpeaksForTailSection: argv.keyid !== toolKeyhash in the coroutine,
\* argv.keyid != toolKeyhash in the callback
TailMismatchK(v, keyid, credential) ==
    IF v = "coroutine"
    THEN StrictNotEqual(keyid, credential.tail)
    ELSE LooseNotEqual(keyid, credential.tail)

\* verifySpeaksForTailSectionFromFile: certKeyhash against toolKeyhash
TailMismatchT(toolCertificate, credential) ==
    getPublicKeyFingerprint(toolCertificate.publicKey) # credential.tail

Succeed(t) ==
    /\ trace' = Append(t, Event("success", 0, ""))
    /\ retval' = IF variant = "coroutine" THEN 0 ELSE retval
    /\ vpc' = "done"
    /\ exitCode' = 0

\* mutant of SkipTail: a missing tool identity is an error
SkipTailFatal(t, v) == Fail(t, 6, "no -k or -t")

\* neither -k nor -t: the warning (the oldest verifier has none), then
\* the closing line
SkipTail(t, v) ==
    IF v = "callbackV1"
    THEN Succeed(t)
    ELSE Succeed(Append(t, Event("warn", 6, "no -k or -t")))

\* Stage 6 and the closing line
VStage6 ==
    /\ vpc = "stage6"
    /\ LET credential == s4cred[1].credential
           check == TailCheck(variant, argv)
           passed == Append(Started(6), Event("pass", 6, ""))
       IN IF check = "k"
          THEN IF TailMismatchK(variant, argv.keyid[1], credential)
               THEN Fail(Started(6), 6, "tail -k")
               ELSE Succeed(passed)
          ELSE IF check = "t"
               THEN IF TailMismatchT(argv.toolcertificate[1], credential)
                    THEN Fail(Started(6), 6, "tail -t")
                    ELSE Succeed(passed)
               ELSE SkipTail(trace, variant)
    /\ UNCHANGED <<variant, argv, s4cred, signingCertificatePem, ossl, clock, s4file, origin>>
    /\ UNCHANGED bvars
    /\ UNCHANGED libvars

(***************************************************************************)
(* The loader of the builder: PEM files                                    *)
(***************************************************************************)
\* most regions of a PEM file, most safe bags of a PKCS#12 container
MaxParts == 2

\* what -p can hold; the option's default is the empty string
Passwords == {"", "secret", "other"}

\* the password the encrypted keys of the files are encrypted with
KeyPassword == "secret"

SeqUpTo(S, n) == UNION {[1..m -> S] : m \in 0..n}

\* a region of a PEM file: its armor, whether a "Proc-Type: 4,ENCRYPTED"
\* header follows the BEGIN line, and the RSA key it is about
PemRegion(armor, procType, key) == [armor |-> armor, procType |-> procType, key |-> key]

PemRegions ==
    {PemRegion("RSA PRIVATE KEY", e, k) : e \in BOOLEAN, k \in Keys}
    \cup {PemRegion(a, FALSE, k) :
             a \in {"PRIVATE KEY", "ENCRYPTED PRIVATE KEY", "CERTIFICATE"}, k \in Keys}

\* a PEM file: its regions in file order and its line ends
PemFiles == [eol : {"LF", "CRLF"}, regions : SeqUpTo(PemRegions, MaxParts)]

\* readPemCredentialElement: the regions with this armor, in file order;
\* String.match gives null (here <<>>) when there is none
readPemCredentialElement(pem, armor) ==
    SelectSeq(pem.regions, LAMBDA r : r.armor = armor)

\* forge.pki.decryptRsaPrivateKey: null (here <<>>) for a wrong password
decryptRsaPrivateKey(region, password) ==
    IF password = KeyPassword THEN <<region.key>> ELSE <<>>

OneKeyMessage == "PEM credential can only contain one privateKey"
DecryptionMessage == "Private key decryption failed. Invalid password?"
\* what forge.pki.privateKeyFromPem throws for an encrypted PEM message
ForgeEncryptedMessage == "Could not convert private key from PEM; PEM is encrypted."

Thrown(message) == [thrown |-> message, privateKey |-> <<>>]
Got(key) == [thrown |-> "", privateKey |-> key]

\* _.startsWith(aux[0], pkcs5encrypted_subheader, pkcs5_header.length + 1):
\* the header is looked for one character after the BEGIN line, where it is
\* when the line ends with a single "\n"
StartsWithProcType(pem, region) == region.procType /\ pem.eol = "LF"

\* if (password) privateKey = decryptRsaPrivateKey(...);
\* if (!privateKey) throw new Error(...)
DecryptOrThrow(region, password) ==
    LET privateKey == IF password # "" THEN decryptRsaPrivateKey(region, password)
                                       ELSE <<>>
    IN IF privateKey = <<>> THEN Thrown(DecryptionMessage) ELSE Got(privateKey)

\* the "RSA PRIVATE KEY" block of extractPrivateKeyFromPem
Pkcs5Step(pem, password) ==
    LET aux == readPemCredentialElement(pem, "RSA PRIVATE KEY")
    IN IF aux = <<>> THEN Got(<<>>)
       ELSE IF Len(aux) > 1 THEN Thrown(OneKeyMessage)
       ELSE IF StartsWithProcType(pem, aux[1]) THEN DecryptOrThrow(aux[1], password)
       ELSE IF aux[1].procType THEN Thrown(ForgeEncryptedMessage)
       ELSE Got(<<aux[1].key>>)

\* the "PRIVATE KEY" block, sofar being the outcome of the block before
Pkcs8PlainStep(pem, sofar) ==
    LET aux == readPemCredentialElement(pem, "PRIVATE KEY")
    IN IF sofar.thrown # "" \/ aux = <<>> THEN sofar
       ELSE IF Len(aux) > 1 \/ sofar.privateKey # <<>> THEN Thrown(OneKeyMessage)
       ELSE Got(<<aux[1].key>>)

\* the "ENCRYPTED PRIVATE KEY" block
Pkcs8EncryptedStep(pem, password, sofar) ==
    LET aux == readPemCredentialElement(pem, "ENCRYPTED PRIVATE KEY")
    IN IF sofar.thrown # "" \/ aux = <<>> THEN sofar
       ELSE IF Len(aux) > 1 \/ sofar.privateKey # <<>> THEN Thrown(OneKeyMessage)
       ELSE DecryptOrThrow(aux[1], password)

\* extractPrivateKeyFromPem: what it throws, or the key it returns (<<>>
\* for null)
extractPrivateKeyFromPem(pem, password) ==
    Pkcs8EncryptedStep(pem, password,
                       Pkcs8PlainStep(pem, Pkcs5Step(pem, password)))

\* extractCertificateChainFromPem: the CERTIFICATE regions in file order
extractCertificateChainFromPem(pem) ==
    LET certs == readPemCredentialElement(pem, "CERTIFICATE")
    IN [i \in 1..Len(certs) |-> Cert(certs[i].key, "none")]

\* a bundle as the loaders return it
Bundle(privateKey, certChain) ==
    [privateKey |-> IF privateKey = <<>> THEN NoKey ELSE privateKey[1],
     certChain |-> certChain]

\* loadPemCredential: what it throws, or the bundle it returns
loadPemCredential(pem, password) ==
    LET key == extractPrivateKeyFromPem(pem, password)
    IN IF key.thrown # ""
       THEN [thrown |-> key.thrown, bundle |-> <<>>]
       ELSE [thrown |-> "",
             bundle |-> << Bundle(key.privateKey,
                                  extractCertificateChainFromPem(pem)) >>]

(***************************************************************************)
(* Specification                                                           *)
(***************************************************************************)
\* the loader, the canonicalizer and bnToBytes are not being exercised
LoaderIdle ==
    /\ lpc = "off"
    /\ cfile = <<>>
    /\ userCredential = <<>>
    /\ lerror = ""

CanonIdle == node = <<>> /\ canon = <<>>

KeyInfoIdle == bn = 0 /\ bnBytes = <<>>

IdleArgs == [format |-> "xml", keyid |-> <<>>, toolcertificate |-> <<>>]

VerifierIdle ==
    /\ variant = "none"
    /\ argv = IdleArgs
    /\ vpc = "idle"
    /\ s4cred = <<>>
    /\ signingCertificatePem = <<>>
    /\ ossl = <<>>
    /\ clock = 0
    /\ trace = <<>>
    /\ retval = -1
    /\ exitCode = -1

\* a run of the builder is about to start
InitIssue ==
    /\ bargv \in BuilderArgs
    /\ bpc = "ready"
    /\ emitted = <<>>
    /\ s4file = <<>>
    /\ origin = "none"

\* no builder runs: the verifier is handed a file from elsewhere
InitFile ==
    /\ bargv = [credential |-> [privateKey |-> 1, certChain |-> <<>>],
                toolcertificate |-> Cert(1, "none"), days |-> 0]
    /\ bpc = "off"
    /\ emitted = <<>>
    /\ s4file \in {<<f>> : f \in ForgedFiles}
    /\ origin = "forged"

Init ==
    /\ InitIssue \/ InitFile
    /\ VerifierIdle
    /\ LoaderIdle /\ CanonIdle /\ KeyInfoIdle

Next ==
    \/ Build
    \/ Deliver
    \/ Tamper
    \/ VStart
    \/ VParse
    \/ VSchema
    \/ VStage2
    \/ VStage3
    \/ VStage4
    \/ VStage5
    \/ VStage6

Spec == Init /\ [][Next]_vars

(***************************************************************************)
(* The loader of the builder: PKCS#12 containers                           *)
(***************************************************************************)
\* safeBag.attributes.localKeyId in hex: <<>> when the bag has no such
\* attribute; the identifier can be the empty octet string
LocalKeyIds == {<<>>, <<"">>, <<"01">>, <<"02">>}

SafeBags ==
    [type : {"pkcs8ShroudedKeyBag", "certBag"}, localKeyId : LocalKeyIds, key : Keys]

\* pkcs12.safeContents: two SafeContents holding the bags between them
SafeContentsOf(bags) ==
    {<< SubSeq(bags, 1, i), SubSeq(bags, i + 1, Len(bags)) >> : i \in 0..Len(bags)}

Pkcs12Files ==
    {[password |-> KeyPassword, safeContents |-> sc] :
        sc \in UNION {SafeContentsOf(bags) : bags \in SeqUpTo(SafeBags, MaxParts)}}

\* the bags in the order the two nested loops visit them
RECURSIVE BagsInOrder(_)
BagsInOrder(safeContents) ==
    IF safeContents = <<>> THEN <<>>
    ELSE Head(safeContents) \o BagsInOrder(Tail(safeContents))

SingleKeyIdMessage == "PKCS#12 credential can only contain one single key ID"
\* what forge.pkcs12.pkcs12FromAsn1 throws for a wrong password
ForgeMacMessage == "PKCS#12 MAC could not be verified. Invalid password?"

\* mutant of KeepBag: a certificate is put in front of the chain
KeepBagInFront(p12contents, safeBag) ==
    IF safeBag.type = "pkcs8ShroudedKeyBag"
    THEN [p12contents EXCEPT !.privateKey = <<safeBag.key>>]
    ELSE [p12contents EXCEPT !.certChain = <<Cert(safeBag.key, "none")>> \o @]

\* a bag with a localKeyId: its key becomes the private key, or its
\* certificate is pushed on the chain
KeepBag(p12contents, safeBag) ==
    IF safeBag.type = "pkcs8ShroudedKeyBag"
    THEN [p12contents EXCEPT !.privateKey = <<safeBag.key>>]
    ELSE [p12contents EXCEPT !.certChain = Append(@, Cert(safeBag.key, "none"))]

\* !keyId: null and the empty string are falsy
NoKeyId(keyId) == keyId = <<>> \/ keyId[1] = ""

\* the body of the inner loop over the bags that are left
RECURSIVE WalkSafeBags(_, _)
WalkSafeBags(bags, p12contents) ==
    IF bags = <<>> \/ p12contents.thrown # "" THEN p12contents
    ELSE LET safeBag == Head(bags)
         IN IF safeBag.localKeyId = <<>>
            THEN WalkSafeBags(Tail(bags), p12contents)
            ELSE IF NoKeyId(p12contents.keyId)
            THEN WalkSafeBags(Tail(bags),
                              KeepBag([p12contents EXCEPT !.keyId = safeBag.localKeyId],
                                      safeBag))
            ELSE IF p12contents.keyId # safeBag.localKeyId
            THEN [p12contents EXCEPT !.thrown = SingleKeyIdMessage]
            ELSE WalkSafeBags(Tail(bags), KeepBag(p12contents, safeBag))

\* loadPkcs12Credential: what it throws, or the bundle it returns
loadPkcs12Credential(pkcs12, password) ==
    LET p12contents ==
            WalkSafeBags(BagsInOrder(pkcs12.safeContents),
                         [keyId |-> <<>>, privateKey |-> <<>>, certChain |-> <<>>,
                          thrown |-> ""])
    IN IF password # pkcs12.password
       THEN [thrown |-> ForgeMacMessage, bundle |-> <<>>]
       ELSE IF p12contents.thrown # ""
       THEN [thrown |-> p12contents.thrown, bundle |-> <<>>]
       ELSE [thrown |-> "",
             bundle |-> << Bundle(p12contents.privateKey, p12contents.certChain) >>]

(***************************************************************************)
(* The builder started on a credential file                                *)
(***************************************************************************)
CredentialFiles ==
    [format : {"pem"}, file : PemFiles, password : Passwords]
    \cup [format : {"p12"}, file : Pkcs12Files, password : {KeyPassword, "other"}]

\* the load ended: a throw lands in the catch of the builder, a bundle is
\* what the rest of the try block works on
Loaded(r) ==
    IF r.thrown # ""
    THEN /\ lpc' = "failed"
         /\ lerror' = r.thrown
         /\ userCredential' = <<>>
         /\ bpc' = "error"
         /\ UNCHANGED bargv
    ELSE /\ lpc' = "loaded"
         /\ lerror' = ""
         /\ userCredential' = r.bundle
         /\ bpc' = "ready"
         /\ bargv' = [bargv EXCEPT !.credential = r.bundle[1]]

LoadPem ==
    /\ lpc = "ready"
    /\ cfile.format = "pem"
    /\ Loaded(loadPemCredential(cfile.file, cfile.password))
    /\ UNCHANGED <<cfile, emitted, s4file, origin, cvars, kvars>>
    /\ UNCHANGED vvars

LoadPkcs12 ==
    /\ lpc = "ready"
    /\ cfile.format = "p12"
    /\ Loaded(loadPkcs12Credential(cfile.file, cfile.password))
    /\ UNCHANGED <<cfile, emitted, s4file, origin, cvars, kvars>>
    /\ UNCHANGED vvars

InitLoad ==
    /\ cfile \in CredentialFiles
    /\ lpc = "ready"
    /\ userCredential = <<>>
    /\ lerror = ""
    /\ bargv \in {[credential |-> Bundle(<<>>, <<>>),
                   toolcertificate |-> Cert(1, san), days |-> 1] :
                      san \in {"publicid", "none"}}
    /\ bpc = "load"
    /\ emitted = <<>>
    /\ s4file = <<>>
    /\ origin = "none"
    /\ VerifierIdle
    /\ CanonIdle /\ KeyInfoIdle

NextLoad ==
    \/ LoadPem
    \/ LoadPkcs12
    \/ Build

SpecLoad == InitLoad /\ [][NextLoad]_vars

(***************************************************************************)
(* The canonicalizer called on a subtree, and again on what it returned    *)
(***************************************************************************)
\* neither tool runs
ToolsIdle ==
    /\ bargv = [credential |-> Bundle(<<>>, <<>>),
                toolcertificate |-> Cert(1, "none"), days |-> 0]
    /\ bpc = "off"
    /\ emitted = <<>>
    /\ s4file = <<>>
    /\ origin = "none"
    /\ VerifierIdle

toolvars == <<bargv, bpc, emitted, s4file, origin, vvars>>

Process ==
    /\ canon = <<>>
    /\ canon' = << process(node) >>
    /\ UNCHANGED <<node, toolvars, lvars, kvars>>

Reprocess ==
    /\ Len(canon) = 1
    /\ canon' = Append(canon, process(ParseCanon(canon[1])))
    /\ UNCHANGED <<node, toolvars, lvars, kvars>>

InitCanon ==
    /\ node \in Nodes
    /\ canon = <<>>
    /\ ToolsIdle
    /\ LoaderIdle /\ KeyInfoIdle

NextCanon ==
    \/ Process
    \/ Reprocess

SpecCanon == InitCanon /\ [][NextCanon]_vars

(***************************************************************************)
(* SpeaksForKeyInfo.bnToBytes, called by keyValue on the modulus and the   *)
(* exponent of the signing key                                             *)
(***************************************************************************)
\* largest big integer converted
MaxBn == 4095

\* b.toString(16): the hexadecimal digits, most significant first
RECURSIVE toString16(_)
toString16(b) ==
    IF b < 16 THEN <<b>> ELSE Append(toString16(b \div 16), b % 16)

\* forge.util.binary.hex.decode: with an odd number of digits the first
\* digit is a byte of its own, then every two digits are a byte
RECURSIVE hexDecode(_)
hexDecode(hex) ==
    IF hex = <<>> THEN <<>>
    ELSE IF Len(hex) % 2 = 1 THEN <<hex[1]>> \o hexDecode(Tail(hex))
    ELSE <<16 * hex[1] + hex[2]>> \o hexDecode(SubSeq(hex, 3, Len(hex)))

\* bnToBytes: '00' is put in front when the first digit is '8' or more
bnToBytes(b) ==
    LET hex == toString16(b)
    IN hexDecode(IF hex[1] >= 8 THEN <<0, 0>> \o hex ELSE hex)

CallBnToBytes ==
    /\ bnBytes = <<>>
    /\ bnBytes' = << bnToBytes(bn) >>
    /\ UNCHANGED <<bn, toolvars, lvars, cvars>>

InitKeyInfo ==
    /\ bn \in 1..MaxBn
    /\ bnBytes = <<>>
    /\ ToolsIdle
    /\ LoaderIdle /\ CanonIdle

NextKeyInfo == CallBnToBytes

SpecKeyInfo == InitKeyInfo /\ [][NextKeyInfo]_vars

(***************************************************************************)
(* Reading the trace of a run                                              *)
(***************************************************************************)
Has(ev, stage) ==
    \E i \in 1..Len(trace) : trace[i].ev = ev /\ trace[i].stage = stage

Done == vpc = "done"

Succeeded == Done /\ Has("success", 0)

\* the first X509Certificate of the Signature in the loaded credential
FirstX509 == s4cred[1].signature[1].x509[1].b64

\* the instant written in the loaded credential's expires, <<>> if none
ExpiresInstant == NewDate(s4cred[1].credential.expires)

(***************************************************************************)
(* C1: sign-then-verify round trip                                         *)
(***************************************************************************)
\* the builder has run on a valid bundle with a validity of d > 0 days
C1_Issued == bpc \in {"done", "error"} /\ ValidBundle(bargv.credential) /\ bargv.days > 0

\* the verifier has run on the builder's credential as printed, decoding it
\* as base64, with no expected tool identity or with the certificate of the
\* tool the credential was issued for
C1_HonestRun ==
    /\ origin = "builder"
    /\ Done
    /\ argv.format = "base64"
    /\ argv.keyid = <<>>
    /\ \/ argv.toolcertificate = <<>>
       \/ /\ argv.toolcertificate # <<>>
          /\ argv.toolcertificate[1].publicKey = bargv.toolcertificate.publicKey

\* the CA folder did not accept the chain, or the expiry instant was reached
C1_Excused ==
    \/ ossl # <<>> /\ ~OpensslOk(ossl[1])
    \/ Has("start", 4) /\ ~(clock < ExpireDate(IssueTime, bargv.days))

\* every credential the builder does emit for a valid bundle and d > 0 is
\* accepted against a CA folder that trusts its chain, before it expires
C1_Accepted == (C1_Issued /\ C1_HonestRun /\ ~C1_Excused) => Succeeded

\* C1: for every valid signer bundle, every tool certificate and every
\* validity d > 0, the builder produces a credential, and the verifier
\* accepts it (all stages pass) against a CA folder that trusts the chain,
\* before the expiry instant.
C1_RoundTrip == (C1_Issued => bpc = "done") /\ C1_Accepted

\* a round trip that succeeds
C1_Witness == C1_Issued /\ C1_HonestRun /\ Succeeded

(***************************************************************************)
(* C2: the stages run in order and the first failure ends the run          *)
(***************************************************************************)
\* the event before a stage's entry: nothing before stage 1, the pass of
\* the stage before it otherwise
C2_EntryOk(i) ==
    IF trace[i].stage = 1
    THEN i = 1
    ELSE i > 1 /\ trace[i - 1] = Event("pass", trace[i].stage - 1, "")

\* the closing line follows the pass of the last stage of the variant, or
\* the warning that the tail check is skipped
C2_SuccessOk(i) ==
    /\ i = Len(trace)
    /\ i > 1
    /\ \/ trace[i - 1] = Event("pass", 6, "")
       \/ trace[i - 1].ev = "warn" /\ i > 2 /\ trace[i - 2] = Event("pass", 5, "")
       \/ variant = "callbackV1" /\ trace[i - 1] = Event("pass", 5, "")

\* C2: the stages are entered in the order schema, XML signature, trust
\* chain, expiration, head binding, tail binding; a stage is entered only
\* right after the stage before it has passed; a failure is the last thing
\* a run does, so no later stage runs and the success line never follows.
C2_StageOrder ==
    \A i \in 1..Len(trace) :
        LET e == trace[i]
        IN /\ e.ev = "start" => C2_EntryOk(i)
           /\ e.ev = "pass" => i > 1 /\ trace[i - 1] = Event("start", e.stage, "")
           /\ e.ev \in {"fail", "crash"} =>
                 /\ i = Len(trace)
                 /\ Done
                 /\ i > 1
                 /\ trace[i - 1] = Event("start", e.stage, "")
           /\ e.ev = "warn" => i > 1 /\ trace[i - 1] = Event("pass", 5, "")
           /\ e.ev = "usage" => Len(trace) = 1
           /\ e.ev = "success" => C2_SuccessOk(i)

\* a run that stopped at a failed stage 4 after stages 1 to 3 passed
C2_Witness ==
    /\ Done
    /\ Has("pass", 3)
    /\ Has("fail", 4)
    /\ ~Has("start", 5)

(***************************************************************************)
(* C3: success binds the head keyid to the signing certificate             *)
(***************************************************************************)
\* C3: whenever the verifier reports success, the keyid in the head of the
\* credential equals the KeyId (SHA-1 public-key fingerprint) of the signing
\* certificate, the first certificate of the signature's X509Data.
C3_HeadBinding ==
    Succeeded =>
        s4cred[1].credential.head = getPublicKeyFingerprint(FirstX509.publicKey)

\* an accepted credential that no builder run produced, whose tail names
\* another key than its head
C3_Witness ==
    /\ Succeeded
    /\ origin = "forged"
    /\ s4cred[1].credential.head # s4cred[1].credential.tail

(***************************************************************************)
(* C4: tail binding with -t or -k                                          *)
(***************************************************************************)
\* the word the caller wrote after -k
C4_KeyidWord == CHOOSE w \in KeyidWords : YargsValue(w) = argv.keyid[1]

\* the tool KeyId the caller expects: the word after -k, or the KeyId of
\* the certificate in the -t file
C4_Expected ==
    IF argv.keyid # <<>>
    THEN C4_KeyidWord
    ELSE getPublicKeyFingerprint(argv.toolcertificate[1].publicKey)

\* exactly one of -k and -t was given
C4_OneGiven == (argv.keyid # <<>>) # (argv.toolcertificate # <<>>)

\* C4: when the verifier is invoked with -t or with -k, it accepts only if
\* the expected tool KeyId equals the keyid in the tail of the credential:
\* for every supplied value that differs from the tail keyid, success is not
\* reported.
C4_TailBinding ==
    (Succeeded /\ C4_OneGiven) => C4_Expected = s4cred[1].credential.tail

\* what the code does guarantee: a run that makes the tail check with -t,
\* or with a -k word that yargs leaves a String, accepts only on equality
C4_TailBindingStrings ==
    (/\ Succeeded
     /\ C4_OneGiven
     /\ argv.keyid # <<>> => ~argv.keyid[1].isNum) =>
        C4_Expected = s4cred[1].credential.tail

(***************************************************************************)
(* C5: no -t and no -k                                                     *)
(***************************************************************************)
\* C5: when neither -t nor -k is given, the verifier does not enter the
\* tail binding, prints the warning, and reports success whenever stages 1
\* to 5 have passed.
C5_NoToolIdentity ==
    (/\ Done
     /\ variant \in {"coroutine", "callback"}
     /\ argv.keyid = <<>>
     /\ argv.toolcertificate = <<>>
     /\ Has("pass", 5)) =>
        /\ Succeeded
        /\ Has("warn", 6)
        /\ ~Has("start", 6)

\* such a run, ended
C5_Witness ==
    /\ Succeeded
    /\ variant \in {"coroutine", "callback"}
    /\ argv.keyid = <<>>
    /\ argv.toolcertificate = <<>>
    /\ Has("warn", 6)

(***************************************************************************)
(* C6: the expiration check                                                *)
(***************************************************************************)
\* C6: stage 4 passes only when the current instant is strictly earlier
\* than the expires instant (now < expires); every credential with
\* expires <= now, expires = now included, is rejected as expired.
C6_StrictlyBefore ==
    (Has("pass", 4) /\ ExpiresInstant # <<>>) => clock < ExpiresInstant[1]

\* C6 as the code has it: for an expires that reads as an instant, stage 4
\* passes exactly when now <= expires and rejects exactly when
\* expires < now; a credential with expires = now is accepted.
C6_NotAfter ==
    (Has("start", 4) /\ ExpiresInstant # <<>>) =>
        /\ Has("fail", 4) <=> ExpiresInstant[1] < clock
        /\ Has("pass", 4) <=> clock <= ExpiresInstant[1]

\* stage 4 passed at the very instant the credential expires
C6_Witness ==
    /\ Has("pass", 4)
    /\ ExpiresInstant = <<clock>>

(***************************************************************************)
(* C7: tamper detection by stage 2                                         *)
(***************************************************************************)
\* the run is on a credential of the builder with one part changed and has
\* reached stage 2
C7_TamperedRun == origin \in TamperKinds /\ Has("start", 2)

C7_Covered == {"credential", "digest", "signedInfo", "signatureValue", "x509key"}

C8_LastEvent == trace[Len(trace)]

\* C8: stage 3 rejects a malformed signing certificate with the first line
\* of openssl verify's output as reason, a chain that ends at no trusted
\* anchor as "not trusted", an expired certificate as "not acceptable"; the
\* three reasons differ; and stage 3 passes, and a fortiori the credential
\* is accepted, only if validCert and verifiedCA are true and expired false.
C8_ChainRejections ==
    (ossl # <<>> /\ ~ossl[1].err) =>
        LET r == ossl[1]
        IN /\ ~r.validCert => C8_LastEvent = Event("fail", 3, "output[0]")
           /\ (r.validCert /\ ~r.verifiedCA) =>
                 C8_LastEvent = Event("fail", 3, "not trusted")
           /\ (r.validCert /\ r.verifiedCA /\ r.expired) =>
                 C8_LastEvent = Event("fail", 3, "not acceptable")
           /\ (Has("pass", 3) \/ Succeeded) =>
                 r.validCert /\ r.verifiedCA /\ ~r.expired

\* a trusted but expired certificate was rejected
C8_Witness ==
    /\ ossl # <<>>
    /\ ossl[1].validCert /\ ossl[1].verifiedCA /\ ossl[1].expired
    /\ Has("fail", 3)

(***************************************************************************)
(* C9: exit status                                                         *)
(***************************************************************************)
\* C9: the process exits with status 0 exactly when verification succeeds,
\* with status 1 when a verification stage fails, and with status 2 on a
\* usage error.
C9_ExitStatus ==
    Done =>
        /\ exitCode = 0 <=> Succeeded
        /\ (\E k \in 1..6 : Has("fail", k)) => exitCode = 1
        /\ Has("usage", 0) => exitCode = 2

\* what the code does: every run that is not killed by an uncaught
\* exception ends with status 0, whatever it reported
C9_AlwaysZero ==
    Done => (exitCode = 0 <=> ~(\E k \in 1..6 : Has("crash", k)))

(***************************************************************************)
(* C10: -t together with -k                                                *)
(***************************************************************************)
\* C10: when both -t and -k are supplied, the verifier reports the usage
\* conflict and stops before it loads the credential: no stage runs and
\* success is never reported.
C10_UsageConflict ==
    (/\ vpc # "idle"
     /\ variant \in {"coroutine", "callback"}
     /\ argv.keyid # <<>>
     /\ argv.toolcertificate # <<>>) =>
        /\ Done
        /\ trace = << Event("usage", 0, "-k and -t") >>
        /\ s4cred = <<>>

\* what the code does guarantee: the conflict is reported when -t comes
\* with a -k value that is truthy
C10_UsageConflictTruthy ==
    (/\ vpc # "idle"
     /\ variant \in {"coroutine", "callback"}
     /\ Truthy(argv.keyid)
     /\ argv.toolcertificate # <<>>) =>
        /\ Done
        /\ trace = << Event("usage", 0, "-k and -t") >>
        /\ s4cred = <<>>

(***************************************************************************)
(* Reading a run of the loader                                             *)
(***************************************************************************)
LoadEnded == lpc \in {"loaded", "failed"}

PemLoadEnded == LoadEnded /\ cfile.format = "pem"

Pkcs12LoadEnded == LoadEnded /\ cfile.format = "p12"

\* the private-key regions of the PEM file, over the three armor kinds
KeyRegions ==
    SelectSeq(cfile.file.regions, LAMBDA r : r.armor # "CERTIFICATE")

\* the region holds an encrypted key
EncryptedRegion(r) ==
    \/ r.armor = "RSA PRIVATE KEY" /\ r.procType
    \/ r.armor = "ENCRYPTED PRIVATE KEY"

(***************************************************************************)
(* C11: exactly one private-key region                                     *)
(***************************************************************************)
\* C11: PEM loading succeeds only if the file holds exactly one private-key
\* region over the three armor kinds; with none, or with two of the same or
\* of different kinds, loading fails and no credential is produced.
C11_ExactlyOneKey ==
    PemLoadEnded =>
        /\ lpc = "loaded" => Len(KeyRegions) = 1
        /\ Len(KeyRegions) # 1 => (lpc = "failed" /\ emitted = <<>>)

\* what the code does keep: two or more key regions make the load throw,
\* and without exactly one key region no credential is ever produced
C11_NoCredential ==
    cfile.format = "pem" =>
        /\ (LoadEnded /\ Len(KeyRegions) > 1) => lpc = "failed"
        /\ Len(KeyRegions) # 1 => emitted = <<>>

(***************************************************************************)
(* C12: encrypted key and password                                         *)
(***************************************************************************)
\* the file holds one key region, an encrypted one, and -p is empty,
\* missing or wrong
C12_BadPassword ==
    /\ PemLoadEnded
    /\ Len(KeyRegions) = 1
    /\ EncryptedRegion(KeyRegions[1])
    /\ cfile.password # KeyPassword

\* C12: for an encrypted private key (PKCS#5 with the Proc-Type header
\* inside the armor, or PKCS#8 encrypted) an empty, missing or wrong
\* password makes loading fail with "Private key decryption failed.
\* Invalid password?" and no private key is returned.
C12_DecryptionFailed ==
    C12_BadPassword =>
        /\ lpc = "failed"
        /\ lerror = DecryptionMessage
        /\ userCredential = <<>>

\* what the code does keep: no key is returned, and the message is the
\* stated one when the Proc-Type header is where the code looks for it
C12_NoKeyReturned ==
    C12_BadPassword =>
        /\ lpc = "failed"
        /\ userCredential = <<>>
        /\ (KeyRegions[1].armor = "ENCRYPTED PRIVATE KEY" \/ cfile.file.eol = "LF")
               => lerror = DecryptionMessage

(***************************************************************************)
(* C13: one single localKeyId                                              *)
(***************************************************************************)
\* the localKeyId values the bags of the container carry
C13_KeyIdsPresent ==
    LET bags == BagsInOrder(cfile.file.safeContents)
    IN {bags[i].localKeyId[1] : i \in {j \in 1..Len(bags) : bags[j].localKeyId # <<>>}}

C13_Opened == Pkcs12LoadEnded /\ cfile.password = cfile.file.password

\* C13: PKCS#12 loading fails with "PKCS#12 credential can only contain one
\* single key ID" whenever two bags anywhere in the container carry
\* different localKeyId values, and does not fail so when all localKeyIds
\* present are equal.
C13_SingleKeyId ==
    C13_Opened =>
        ((lpc = "failed" /\ lerror = SingleKeyIdMessage)
            <=> Cardinality(C13_KeyIdsPresent) > 1)

\* what the code does keep: the same, for containers none of whose
\* localKeyIds is the empty octet string
C13_NonEmptyKeyIds ==
    (C13_Opened /\ "" \notin C13_KeyIdsPresent) =>
        ((lpc = "failed" /\ lerror = SingleKeyIdMessage)
            <=> Cardinality(C13_KeyIdsPresent) > 1)

(***************************************************************************)
(* C14: chain and key of a PKCS#12 bundle                                  *)
(***************************************************************************)
C14_Bags == BagsInOrder(cfile.file.safeContents)

\* the certificates of the given bags, in order
C14_Certs(bags) == [i \in 1..Len(bags) |-> Cert(bags[i].key, "none")]

\* the key of the last of the given bags, NoKey if there is none
C14_LastKey(bags) == IF bags = <<>> THEN NoKey ELSE bags[Len(bags)].key

C14_Loaded == Pkcs12LoadEnded /\ lpc = "loaded"

\* C14 as stated: the chain of the bundle holds every certBag of the
\* container in the order of the walk, and the private key is the one of
\* the pkcs8ShroudedKeyBag.
C14_EveryCertBag ==
    C14_Loaded =>
        /\ userCredential[1].certChain =
              C14_Certs(SelectSeq(C14_Bags, LAMBDA b : b.type = "certBag"))
        /\ userCredential[1].privateKey =
              C14_LastKey(SelectSeq(C14_Bags, LAMBDA b : b.type = "pkcs8ShroudedKeyBag"))

\* C14, amended: the chain of the bundle holds every certBag that carries
\* a localKeyId attribute, in the order of the walk, and the private key is
\* the one of the last pkcs8ShroudedKeyBag that carries a localKeyId (none
\* if there is no such bag); bags without a localKeyId are skipped.
C14_BagsWithKeyId ==
    C14_Loaded =>
        LET kept == SelectSeq(C14_Bags, LAMBDA b : b.localKeyId # <<>>)
        IN /\ userCredential[1].certChain =
                 C14_Certs(SelectSeq(kept, LAMBDA b : b.type = "certBag"))
           /\ userCredential[1].privateKey =
                 C14_LastKey(SelectSeq(kept, LAMBDA b : b.type = "pkcs8ShroudedKeyBag"))

\* a container with two certificates for different keys was loaded, both
\* in the chain
C14_Witness ==
    /\ C14_Loaded
    /\ Len(userCredential[1].certChain) = 2
    /\ userCredential[1].certChain[1] # userCredential[1].certChain[2]

(***************************************************************************)
(* C15: the bundle invariant                                               *)
(***************************************************************************)
\* C15: every bundle a loader returns has a first certificate whose public
\* key is the one of the private key; a file whose first certificate does
\* not match the key, or with no certificate, makes loading fail.
C15_LoadedBundleValid ==
    lpc = "loaded" => ValidBundle(userCredential[1])

\* what the code does: whatever key and certificates the file holds are
\* returned as they are, and the builder signs with them unless the chain
\* is empty or the key is missing
C15_NeverChecked ==
    (lpc = "loaded" /\ bpc = "done") =>
        /\ userCredential[1].certChain # <<>>
        /\ userCredential[1].privateKey # NoKey
        /\ emitted[1].doc.signature[1].value.signer = userCredential[1].privateKey
        /\ emitted[1].doc.signature[1].x509[1].b64 = userCredential[1].certChain[1]

(***************************************************************************)
(* C16: no xmlns:xml="" xml:id in the canonical output                     *)
(***************************************************************************)
\* C16: the output of the canonicalizer never contains the sequence
\* xmlns:xml="" xml:id: every occurrence the underlying canonicalization
\* produced, however many, is rewritten to xml:id.
C16_NoOccurrence ==
    canon # <<>> => Matches(canon[1]) = {}

\* what the code does keep: the output has one occurrence less than what
\* the underlying canonicalization produced for the elements of the
\* subtree, so none is left when at most one element has an xml:id
C16_FirstOnly ==
    (canon # <<>> /\ \A i \in 1..Len(node) : node[i] \in {"idAttr", "text"}) =>
        LET ids == Cardinality({i \in 1..Len(node) : node[i] = "idAttr"})
        IN Cardinality(Matches(canon[1])) = IF ids = 0 THEN 0 ELSE ids - 1

(***************************************************************************)
(* C17: idempotence                                                        *)
(***************************************************************************)
\* C17: the canonicalizer applied to its own output gives the same bytes.
C17_Idempotent ==
    Len(canon) = 2 => canon[2] = canon[1]

\* what the code does keep: the same, when the character data of the
\* subtree holds no part of the sequence
C17_IdempotentOnAttributes ==
    (Len(canon) = 2 /\ \A i \in 1..Len(node) : node[i] \in {"idAttr", "text"}) =>
        canon[2] = canon[1]

(***************************************************************************)
(* C18: the fixup on both sides                                            *)
(***************************************************************************)
\* the canonical form of a credential element under the fixup
C18_FixupForm(credential) ==
    [startTag |-> process(CredentialNode),
     expires |-> credential.expires, head |-> credential.head,
     tail |-> credential.tail]

\* C18: the builder and every verifier install the xml:id fixup before the
\* signature is computed or checked: the DigestValue the builder writes is
\* the digest of the fixup form, stage 2 passes only on a DigestValue that
\* is the digest of the fixup form of the referenced element, and so the
\* builder's credential, signed
\* with the key of its first certificate and read as it was written, passes
\* stage 2 in every verifier.
C18_FixupOnBothSides ==
    /\ bpc = "done" =>
          emitted[1].doc.signature[1].signedInfo.digest
              = Sha1Digest(C18_FixupForm(emitted[1].doc.credential))
    /\ Has("pass", 2) =>
          s4cred[1].signature[1].signedInfo.digest
              = Sha1Digest(C18_FixupForm(Referenced(s4cred[1])))
    /\ (/\ origin = "builder"
        /\ ValidBundle(bargv.credential)
        /\ argv.format = "base64"
        /\ Has("start", 2)) => Has("pass", 2)

\* the oldest verifier has passed stage 2 on a credential of the builder
C18_Witness ==
    /\ origin = "builder"
    /\ variant = "callbackV1"
    /\ Has("pass", 2)

(***************************************************************************)
(* C19: bnToBytes                                                          *)
(***************************************************************************)
\* the minimal big-endian bytes of a positive integer
RECURSIVE C19_MinimalBytes(_)
C19_MinimalBytes(b) ==
    IF b < 256 THEN <<b>> ELSE Append(C19_MinimalBytes(b \div 256), b % 256)

\* the integer a byte sequence stands for, big-endian
RECURSIVE C19_Value(_)
C19_Value(bytes) ==
    IF bytes = <<>> THEN 0
    ELSE 256 * C19_Value(SubSeq(bytes, 1, Len(bytes) - 1)) + bytes[Len(bytes)]

\* C19: bnToBytes(b) is the minimal big-endian byte sequence of b with one
\* leading zero byte in front if and only if the high bit of its first byte
\* is set; none is added when the first byte is below 0x80, odd numbers of
\* hexadecimal digits included.
C19_LeadingZeroIffHighBit ==
    bnBytes # <<>> =>
        LET minimal == C19_MinimalBytes(bn)
        IN bnBytes[1] = IF minimal[1] >= 128 THEN <<0>> \o minimal ELSE minimal

\* what the code does keep: the bytes stand for b, and they are as stated
\* when b has an even number of hexadecimal digits or a first digit below 8
C19_EvenDigits ==
    bnBytes # <<>> =>
        LET minimal == C19_MinimalBytes(bn)
            hex == toString16(bn)
        IN /\ C19_Value(bnBytes[1]) = bn
           /\ (Len(hex) % 2 = 0 \/ hex[1] < 8) =>
                 bnBytes[1] = IF minimal[1] >= 128 THEN <<0>> \o minimal ELSE minimal

(***************************************************************************)
(* C20: what the KeyId is the digest of                                    *)
(***************************************************************************)
\* the keyids of builder and verifier are the SHA-1 of the given DER
\* encoding of the public key: the builder writes it of the first
\* certificate of the bundle in the head and of the tool certificate in the
\* tail; stage 5 passes only on a head that is it of the signing
\* certificate, stage 6 with -t only on a tail that is it of the tool
\* certificate
C20_KeyIdOver(type) ==
    LET KeyId(k) == Sha1Hex([type |-> type, key |-> k])
    IN /\ bpc = "done" =>
             /\ emitted[1].doc.credential.head
                   = KeyId(bargv.credential.certChain[1].publicKey)
             /\ emitted[1].doc.credential.tail
                   = KeyId(bargv.toolcertificate.publicKey)
       /\ Has("pass", 5) =>
             s4cred[1].credential.head = KeyId(FirstX509.publicKey)
       /\ (Has("pass", 6) /\ TailCheck(variant, argv) = "t") =>
             s4cred[1].credential.tail = KeyId(argv.toolcertificate[1].publicKey)

C21_Ran == bpc \in {"done", "error"} /\ ValidBundle(bargv.credential)

\* C21: a tool certificate with no publicId (no URI subjectAltName entry
\* that starts with 'urn:publicid:', including a certificate with no
\* subjectAltName extension at all) does not abort issuance: the builder
\* still signs and emits the credential.
C21_NoPublicIdStillIssues ==
    (C21_Ran /\ bargv.toolcertificate.san # "publicid") =>
        bpc = "done" /\ emitted # <<>>

\* what the code does keep of it: with a subjectAltName extension that
\* holds no publicId the credential is emitted
C21_OtherAltNamesStillIssue ==
    (C21_Ran /\ bargv.toolcertificate.san = "other") =>
        bpc = "done" /\ emitted # <<>>

\* and without the extension nothing is emitted
C21_NoExtensionAborts ==
    (C21_Ran /\ bargv.toolcertificate.san = "none") =>
        bpc = "error" /\ emitted = <<>>

(***************************************************************************)
(* C22: a failed issuance emits nothing                                    *)
(***************************************************************************)
\* C22: if any step of issuance fails (loading, decryption, parsing,
\* signing), the builder ends in its catch with one error and has emitted
\* nothing: no base64 credential is printed or written; a credential is
\* printed only by a run in which the load and every later step succeeded.
C22_FailureEmitsNothing ==
    /\ bpc = "error" => emitted = <<>>
    /\ lpc = "failed" =>
          /\ bpc = "error"
          /\ lerror # ""
          /\ userCredential = <<>>
    /\ emitted # <<>> => bpc = "done" /\ lpc = "loaded" /\ lerror = ""

\* the load went well, the bundle is valid, and the run still failed at a
\* later step without output
C22_Witness ==
    /\ lpc = "loaded"
    /\ ValidBundle(bargv.credential)
    /\ bpc = "error"
    /\ emitted = <<>>

(***************************************************************************)
(* C23: negative validity                                                  *)
(***************************************************************************)
\* the verifier has run on the builder's credential as printed, decoding it
\* as base64
C23_VerifiedAsPrinted ==
    /\ origin = "builder"
    /\ ValidBundle(bargv.credential)
    /\ Done
    /\ ~Has("usage", 0)
    /\ argv.format = "base64"

\* C23: the builder does not refuse d <= 0 and writes
\* expires = issuance time + d * 86400000 ms; a credential issued with d < 0
\* passes stages 1 and 2, passes stage 3 against a CA folder that trusts
\* its chain, and is then rejected at stage 4 as expired, stage 5 never
\* being entered.
C23_NegativeValidity ==
    /\ (bpc \in {"done", "error"} /\ ~BuildThrows(bargv)) => bpc = "done"
    /\ bpc = "done" =>
          /\ emitted # <<>>
          /\ NewDate(emitted[1].doc.credential.expires) =
                << IssueTime + bargv.days * 86400000 >>
    /\ (C23_VerifiedAsPrinted /\ bargv.days < 0) =>
          /\ Has("pass", 1) /\ Has("pass", 2)
          /\ ossl # <<>>
          /\ OpensslOk(ossl[1]) =>
                /\ Has("pass", 3)
                /\ trace[Len(trace)] = Event("fail", 4, "expired")
                /\ ~Has("start", 5)

\* a credential issued with d = -1 was rejected at stage 4 after stage 3
C23_Witness ==
    /\ C23_VerifiedAsPrinted
    /\ bargv.days < 0
    /\ Has("pass", 3)
    /\ Has("fail", 4)

(***************************************************************************)
(* C24: the order of the chain checks                                      *)
(***************************************************************************)
\* the three conditions in the order the claim gives them, each with the
\* reason it is reported with
C24_Checks(r) ==
    << [holds |-> ~r.validCert, reason |-> "output[0]"],
       [holds |-> ~r.verifiedCA, reason |-> "not trusted"],
       [holds |-> r.expired, reason |-> "not acceptable"] >>

\* the reason of the first condition that holds, "" if none does
C24_FirstReason(r) ==
    LET c == C24_Checks(r)
        hit == {i \in 1..Len(c) : c[i].holds}
    IN IF hit = {} THEN ""
       ELSE c[CHOOSE i \in hit : \A j \in hit : i <= j].reason

\* the reasons stage 3 has reported
C24_Reported == {trace[i].reason : i \in {j \in 1..Len(trace) :
                                           trace[j].ev = "fail" /\ trace[j].stage = 3}}

\* C24: stage 3 looks at malformed, untrusted, expired in this order and
\* reports the reason of the first that holds, and only that one; a chain
\* that is well-formed and trusted but holds an expired certificate is
\* reported as 'not acceptable', never as 'not trusted'; stage 3 passes
\* when none holds.
C24_FirstReasonWins ==
    (ossl # <<>> /\ ~ossl[1].err) =>
        LET r == ossl[1]
        IN /\ C24_FirstReason(r) # "" =>
                 /\ C24_Reported = {C24_FirstReason(r)}
                 /\ ~Has("pass", 3)
           /\ C24_FirstReason(r) = "" => C24_Reported = {} /\ Has("pass", 3)
           /\ (r.validCert /\ r.verifiedCA /\ r.expired) =>
                 "not trusted" \notin C24_Reported

\* a trusted chain with an expired certificate was reported as not
\* acceptable
C24_Witness ==
    /\ ossl # <<>>
    /\ ~ossl[1].err
    /\ ossl[1].validCert /\ ossl[1].verifiedCA /\ ossl[1].expired
    /\ C24_Reported = {"not acceptable"}

(***************************************************************************)
(* C25: the certificate chain through X509Data                             *)
(***************************************************************************)
\* the certificates of a PEM chain, each PEM message decoded
C25_Certificates(pemChain) ==
    [i \in 1..Len(pemChain) |-> certificateFromPem(<< pemChain[i] >>)]

FairSpec ==
    Spec /\ WF_vars(VParse \/ VSchema \/ VStage2 \/ VStage3 \/ VStage4
                       \/ VStage5 \/ VStage6)

\* the last console line of the run
C26_Outcome == trace[Len(trace)]

\* the outcomes a run reports: the closing line, the error of a stage, or
\* the line about -k and -t
C26_Reports == {"success", "fail", "usage"}

\* the number of outcomes in the trace
C26_Outcomes ==
    Cardinality({i \in 1..Len(trace) : trace[i].ev \in C26_Reports \cup {"crash"}})

\* C26: every run of a verifier on any input ends with exactly one terminal
\* outcome, the success message or one reported stage failure; no input
\* (a schema-valid document without Signature, a chain check that returns
\* an error instead of a result) leaves the run without a reported outcome.
C26_ReportedOutcome ==
    Done => /\ C26_Outcomes = 1
            /\ C26_Outcome.ev \in C26_Reports

\* what the code does keep of it: the coroutine reports every run's outcome
C26_CoroutineReports ==
    (Done /\ variant = "coroutine") =>
        /\ C26_Outcomes = 1
        /\ C26_Outcome.ev \in C26_Reports

\* and in every verifier at most one outcome is printed, a crash included
C26_OneOutcome == Done => C26_Outcomes = 1

\* a started run ends
C26_Terminates == (vpc # "idle") ~> Done

(***************************************************************************)
(* C27: one signing certificate for stages 2, 3 and 5                      *)
(***************************************************************************)
\* the certificate whose key stage 2 checks the signature with
C27_Stage2Certificate ==
    certificateFromPem(getKey(KeyInfoOf(s4cred[1].signature[1])))

\* the certificate stage 3 hands to openssl verify and stage 5 takes the
\* fingerprint of
C27_Stage35Certificate == certificateFromPem(signingCertificatePem)

\* C27: within one run the certificate whose key checks the signature in
\* stage 2, the end-entity certificate of stage 3 and the certificate whose
\* keyid stage 5 compares are the same, the first X509Certificate of the
\* signature's X509Data.
C27_SameCertificate ==
    Has("pass", 2) =>
        /\ C27_Stage2Certificate = FirstX509
        /\ C27_Stage35Certificate = FirstX509

\* what the code does keep of it: stages 3 and 5 use the first
\* X509Certificate of X509Data
C27_Stage35FirstOfX509Data ==
    Has("pass", 2) => C27_Stage35Certificate = FirstX509

\* and stage 2 uses it too when KeyInfo holds no X509Certificate in front of
\* the X509Data element
C27_SameWithoutOthers ==
    (Has("pass", 2) /\ s4cred[1].signature[1].ahead = <<>>) =>
        C27_Stage2Certificate = FirstX509

(***************************************************************************)
(* C28: the credential element read is the element signed                  *)
(***************************************************************************)
\* C28: the credential element that stages 4 to 6 read at /*/credential is
\* the element whose digest the Reference checked in stage 2 covers; an
\* accepted document never has its checked fields taken from an element
\* the signature does not cover.
C28_ReadIsSigned ==
    (Has("pass", 2) /\ (Has("start", 4) \/ Succeeded)) =>
        /\ Referenced(s4cred[1]) = s4cred[1].credential
        /\ s4cred[1].signature[1].signedInfo.digest =
              Sha1Digest(CanonWith(VerifierAlgorithm(variant), s4cred[1].credential))

\* what the code does keep of it: the digest covers the first element that
\* carries the referenced id
C28_ReferencedIsSigned ==
    Has("pass", 2) =>
        s4cred[1].signature[1].signedInfo.digest =
            Sha1Digest(CanonWith(VerifierAlgorithm(variant), Referenced(s4cred[1])))

\* and in a document of the builder, changed or not, that element is
\* /*/credential
C28_BuilderDocuments ==
    (origin # "forged" /\ s4cred # <<>>) =>
        Referenced(s4cred[1]) = s4cred[1].credential

(***************************************************************************)
(* C29: the coroutine and the nested-callback verifier                     *)
(***************************************************************************)
\* the outcome of verifier v on a file, with the command line a, the answer
\* r of openssl verify and the clock reading now: the last event of its
\* run and the stage of it
C29_Run(v, a, file, r, now) ==
    LET doc == loadSpeaksForCredential(file, a.format = "base64")
        credential == doc.credential
        sig == doc.signature[1]
        thrown == IF v = "coroutine" THEN "fail" ELSE "crash"
        check == TailCheck(v, a)
    IN IF UsageConflict(v, a) THEN <<"usage", 0>>
       ELSE IF ~doc.wellFormed \/ ~doc.schemaOk THEN <<"fail", 1>>
       ELSE IF SignatureThrows(doc) THEN <<thrown, 2>>
       ELSE IF ~ (/\ sig.signedInfo.digest =
                        Sha1Digest(CanonWith(VerifierAlgorithm(v), Referenced(doc)))
                  /\ RsaVerify(certificateFromPem(getKey(KeyInfoOf(sig))).publicKey,
                               sig.signedInfo, sig.value))
            THEN <<"fail", 2>>
       ELSE IF r.err THEN <<thrown, 3>>
       ELSE IF ChainReason(r) # "" THEN <<"fail", 3>>
       ELSE IF Expired(credential.expires, now) THEN <<"fail", 4>>
       ELSE IF HeadMismatch(getKey(sig.x509), credential) THEN <<"fail", 5>>
       ELSE IF check = "k" /\ TailMismatchK(v, a.keyid[1], credential)
            THEN <<"fail", 6>>
       ELSE IF check = "t" /\ TailMismatchT(a.toolcertificate[1], credential)
            THEN <<"fail", 6>>
       ELSE <<"success", 0>>

\* the answers of openssl verify and the clock readings the run in this
\* state has seen or could still see
C29_Results == IF ossl = <<>> THEN OpensslResults ELSE {ossl[1]}

C29_Clocks == IF Has("start", 4) THEN {clock} ELSE Nows

\* C29_Run gives the outcome of the run the model has made
C29_RunIsTheRun ==
    Done =>
        \A r \in C29_Results : \A now \in C29_Clocks :
            C29_Run(variant, argv, s4file[1], r, now) =
                << trace[Len(trace)].ev, trace[Len(trace)].stage >>

\* accept or reject, and the failing stage
C29_Verdict(o) == << o[1] = "success", o[2] >>

\* C29: the coroutine verifier and the nested-callback verifier give, for
\* every credential, trust store answer, -t/-k setting and time, the same
\* accept/reject decision and the same failing stage.
C29_Equivalent ==
    (Done /\ variant \in {"coroutine", "callback"}) =>
        \A r \in C29_Results : \A now \in C29_Clocks :
            C29_Verdict(C29_Run("coroutine", argv, s4file[1], r, now)) =
                C29_Verdict(C29_Run("callback", argv, s4file[1], r, now))

\* what the code does keep of it: the two agree when -k is not given as a
\* number
C29_EquivalentWithoutNumber ==
    (Done /\ variant \in {"coroutine", "callback"}
          /\ (argv.keyid = <<>> \/ ~argv.keyid[1].isNum)) =>
        \A r \in C29_Results : \A now \in C29_Clocks :
            C29_Verdict(C29_Run("coroutine", argv, s4file[1], r, now)) =
                C29_Verdict(C29_Run("callback", argv, s4file[1], r, now))

(***************************************************************************)
(* C30: an expires that is no date                                         *)
(***************************************************************************)
\* C30: a credential whose expires cannot be read as a date never passes
\* stage 4.
C30_UnreadableNeverPasses ==
    (Has("start", 4) /\ ExpiresInstant = <<>>) =>
        /\ ~Has("pass", 4)
        /\ Has("fail", 4)

\* what the code does: such a credential always passes stage 4
C30_UnreadablePasses ==
    (Has("start", 4) /\ ExpiresInstant = <<>>) =>
        /\ Has("pass", 4)
        /\ ~Has("fail", 4)

====
